---- MODULE Spec2Model ----
(***************************************************************************)
(* Model of the Jira -> Applens conversion pipeline of                     *)
(* src/data_transformer.py: load_source_data, apply_transformations,       *)
(* validate_and_clean, save_target_file and run_transformation_pipeline.   *)
(*                                                                         *)
(* A column name is a Python str, modelled as a tuple of one-character     *)
(* strings so that str.lower() and str.strip() are computed and not        *)
(* assumed.  The character "E9" stands for the single non-ASCII letter     *)
(* e-acute (byte 0xE9 in Latin-1).  A cell is a record [kind, val]: kind   *)
(* "str" (text), "nan" (pandas NaN), "nat" (pandas NaT), "ts" (Timestamp), *)
(* "blank" (empty spreadsheet cell).                                       *)
(***************************************************************************)
EXTENDS Naturals, Sequences, FiniteSets, TLC

\* ------------------------------------------------------------------ bounds
MaxRows == 2
MaxMissing == 2

\* ------------------------------------------------------------- column names
IssueKey == <<"I","s","s","u","e"," ","K","e","y">>
IssueType == <<"I","s","s","u","e"," ","T","y","p","e">>
Updated == <<"U","p","d","a","t","e","d">>
Status == <<"S","t","a","t","u","s">>
Resolved == <<"R","e","s","o","l","v","e","d">>
TicketID == <<"T","i","c","k","e","t"," ","I","D">>
TicketType == <<"T","i","c","k","e","t"," ","T","y","p","e">>
OpenDate == <<"O","p","e","n"," ","D","a","t","e">>
ClosedDate == <<"C","l","o","s","e","d"," ","D","a","t","e">>
Priority == <<"P","r","i","o","r","i","t","y">>
Application == <<"A","p","p","l","i","c","a","t","i","o","n">>
AssignmentGroup == <<"A","s","s","i","g","n","m","e","n","t"," ","G","r","o","u","p">>

\* Python dicts keep insertion order: a dict is a sequence of <<key, value>>.
COLUMN_MAPPING ==
  << <<IssueKey, TicketID>>, <<IssueType, TicketType>>, <<Updated, OpenDate>>,
     <<Status, Status>>, <<Resolved, ClosedDate>> >>

CONSTANTS_ ==
  << <<Priority, "NONE">>, <<Application, "HMOF">>,
     <<AssignmentGroup, "HMH Support Group">> >>

FINAL_COLUMN_ORDER ==
  <<TicketID, TicketType, OpenDate, Priority, Status, Application,
    AssignmentGroup, ClosedDate>>

\* ------------------------------------------------------------ generic helpers
Range(s) == {s[i] : i \in 1..Len(s)}

Keys(d) == [i \in 1..Len(d) |-> d[i][1]]

Values(d) == [i \in 1..Len(d) |-> d[i][2]]

HasKey(d, k) == \E i \in 1..Len(d) : d[i][1] = k

\* d[k] for a key that is present (the first entry; keys of a dict are unique).
Lookup(d, k) == d[CHOOSE i \in 1..Len(d) : d[i][1] = k][2]

\* ---------------------------------------------------------- str.lower / strip
UpperAlpha ==
  <<"A","B","C","D","E","F","G","H","I","J","K","L","M",
    "N","O","P","Q","R","S","T","U","V","W","X","Y","Z">>

LowerAlpha ==
  <<"a","b","c","d","e","f","g","h","i","j","k","l","m",
    "n","o","p","q","r","s","t","u","v","w","x","y","z">>

Whitespace == {" ", "\t"}

\* The letter tables of str.lower() and str.upper().
LowerOf == [c \in Range(UpperAlpha) |->
              LowerAlpha[CHOOSE i \in 1..Len(UpperAlpha) : UpperAlpha[i] = c]]

UpperOf == [c \in Range(LowerAlpha) |->
              UpperAlpha[CHOOSE i \in 1..Len(LowerAlpha) : LowerAlpha[i] = c]]

LowerChar(c) == IF c \in DOMAIN LowerOf THEN LowerOf[c] ELSE c

UpperChar(c) == IF c \in DOMAIN UpperOf THEN UpperOf[c] ELSE c

Lower(s) == [i \in 1..Len(s) |-> LowerChar(s[i])]

Upper(s) == [i \in 1..Len(s) |-> UpperChar(s[i])]

RECURSIVE LStrip(_)
LStrip(s) ==
  IF s # <<>> /\ Head(s) \in Whitespace THEN LStrip(Tail(s)) ELSE s

RECURSIVE RStrip(_)
RStrip(s) ==
  IF s # <<>> /\ s[Len(s)] \in Whitespace THEN RStrip(SubSeq(s, 1, Len(s) - 1)) ELSE s

Strip(s) == RStrip(LStrip(s))

\* col.lower() without the strip().
NormNoStrip(s) == Lower(s)

\* col.lower().strip()
Norm(s) == Strip(Lower(s))

\* ------------------------------------------------------------------- cells
Str(v) == [kind |-> "str", val |-> v]

NaN == [kind |-> "nan", val |-> ""]

NaT == [kind |-> "nat", val |-> ""]

Blank == [kind |-> "blank", val |-> ""]

Timestamp(v) == [kind |-> "ts", val |-> v]

\* pandas isna(): NaN and NaT are null, an empty str is not.
IsNull(c) == c.kind \in {"nan", "nat"}

\* Texts pandas.read_csv turns into NaN by default (its STR_NA_VALUES).
NA_VALUES ==
  {"", "NA", "N/A", "n/a", "NULL", "null", "NaN", "nan", "-NaN", "-nan",
   "#N/A", "#NA", "<NA>", "None", "1.#IND", "-1.#IND", "1.#QNAN", "-1.#QNAN",
   "#N/A N/A"}

\* Texts of the model's inputs that dateutil parses as a date.
DateTexts == {"2024-01-01", "2024-01-02", "2024-01-04", "2024-02-01", "2024-02-04"}

\* Texts of the model's inputs holding a non-ASCII letter.
NonAsciiTexts == {"Ferm<E9>"}

NonAsciiChars == {"E9"}

\* ---------------------------------------------------- the input file (inputs)
\* One data row of the export: the four fields that vary.
RowPool ==
  { [key |-> "ABC-1", updated |-> "2024-01-01", status |-> "Open", resolved |-> ""],
    [key |-> "", updated |-> "2024-01-02", status |-> "Open", resolved |-> "2024-02-01"],
    [key |-> "ABC-3", updated |-> "junk", status |-> "Ferm<E9>", resolved |-> "not a date"],
    [key |-> "NA", updated |-> "2024-01-04", status |-> "Done", resolved |-> "2024-02-04"] }

RowSeqs == UNION {[1..n -> RowPool] : n \in 0..MaxRows}

Required == Keys(COLUMN_MAPPING)

RoleOf(name) ==
  CASE name = IssueKey -> "key"
    [] name = IssueType -> "type"
    [] name = Updated -> "updated"
    [] name = Status -> "status"
    [] name = Resolved -> "resolved"

ExtraName == <<"R","E9","s","u","m","E9">>

Col(n, r) == [name |-> n, role |-> r]

Present(missing) == SelectSeq(Required, LAMBDA k : k \notin missing)

Reverse(s) == [i \in 1..Len(s) |-> s[Len(s) + 1 - i]]

\* The header of the export, each column with what its cells hold.
\*   canon:   the required columns spelled as in COLUMN_MAPPING;
\*   shout:   upper case, padded with blanks, in reverse order, each absent
\*            required column replaced by a near miss of its name;
\*   collide: canonical spellings followed by lower-case tab-padded
\*            spellings of the same names (equal after lower().strip()).
HeaderOf(style, missing, extra) ==
  LET pres == Present(missing)
      ex == IF extra THEN <<Col(ExtraName, "extra")>> ELSE <<>>
  IN  CASE style = "canon" ->
             ex \o [i \in 1..Len(pres) |-> Col(pres[i], RoleOf(pres[i]))]
        [] style = "shout" ->
             Reverse([i \in 1..Len(Required) |->
                        IF Required[i] \in missing
                        THEN Col(Required[i] \o <<"_">>, "extra")
                        ELSE Col(<<" ">> \o Upper(Required[i]) \o <<" ", " ">>,
                                 RoleOf(Required[i]))]) \o ex
        [] style = "collide" ->
             [i \in 1..Len(pres) |-> Col(pres[i], "decoy")] \o ex \o
             [i \in 1..Len(pres) |->
                Col(<<"\t">> \o Lower(pres[i]) \o <<" ">>, RoleOf(pres[i]))]

Styles == {"canon", "shout", "collide"}

MissingSets == {m \in SUBSET Range(Required) : Cardinality(m) <= MaxMissing}

CellText(role, t) ==
  CASE role = "key" -> t.key
    [] role = "type" -> "Bug"
    [] role = "updated" -> t.updated
    [] role = "status" -> t.status
    [] role = "resolved" -> t.resolved
    [] role = "decoy" -> "DUP"
    [] role = "extra" -> "x"

\* The file on disk: its header names and the raw text of its data rows.
FileOf(enc, hdr, ts) ==
  [exists |-> TRUE, encoding |-> enc,
   header |-> [i \in 1..Len(hdr) |-> hdr[i].name],
   rows |-> [r \in 1..Len(ts) |-> [i \in 1..Len(hdr) |-> CellText(hdr[i].role, ts[r])]]]

NoInputFile == [exists |-> FALSE, encoding |-> "utf-8", header |-> <<>>, rows |-> <<>>]

Files ==
  {NoInputFile} \cup
  { FileOf(enc, HeaderOf(st, m, ex), ts) :
      enc \in {"utf-8", "latin1"}, st \in Styles, m \in MissingSets,
      ex \in BOOLEAN, ts \in RowSeqs }

\* ------------------------------------------------------------------ decoding
\* Bytes written in Latin-1 that are not valid UTF-8: the non-ASCII letters.
HeaderUndecodable(f) ==
  f.encoding = "latin1" /\
  \E i \in 1..Len(f.header) : Range(f.header[i]) \cap NonAsciiChars # {}

DataUndecodable(f) ==
  f.encoding = "latin1" /\
  \E r \in 1..Len(f.rows) : Range(f.rows[r]) \cap NonAsciiTexts # {}

\* The outcomes pd.read_csv(nrows=0, encoding='utf-8') can have: TRUE is a
\* UnicodeDecodeError.  The parser decodes a buffer at a time, so a bad byte
\* in the data rows may or may not be met by the header-only read.
HeaderUtf8Fails(f) ==
  IF HeaderUndecodable(f) THEN {TRUE}
  ELSE IF DataUndecodable(f) THEN {TRUE, FALSE}
  ELSE {FALSE}

\* pd.read_csv(usecols=..., encoding='utf-8') decodes the whole file.
DataUtf8Fails(f) == HeaderUndecodable(f) \/ DataUndecodable(f)

\* ------------------------------------------------------------ pandas helpers
\* A DataFrame: its column names in order and its rows, each a function from
\* column name to cell.
DataFrame(cols, rows) == [columns |-> cols, rows |-> rows]

EmptyFrame == DataFrame(<<>>, <<>>)

ParseCell(text) == IF text \in NA_VALUES THEN NaN ELSE Str(text)

\* pd.read_csv(file, usecols=usecols): the chosen columns, in file order.
read_csv(f, usecols) ==
  LET idx == SelectSeq([i \in 1..Len(f.header) |-> i],
                       LAMBDA i : f.header[i] \in Range(usecols))
      cols == [j \in 1..Len(idx) |-> f.header[idx[j]]]
      pos(c) == CHOOSE i \in Range(idx) : f.header[i] = c
  IN  DataFrame(cols,
                [r \in 1..Len(f.rows) |->
                   [c \in Range(cols) |-> ParseCell(f.rows[r][pos(c)])]])

\* The first column a renamed name comes from.
Origin(cols, ren, c) ==
  cols[CHOOSE i \in 1..Len(cols) :
         /\ ren[i] = c
         /\ \A j \in 1..Len(cols) : ren[j] = c => i <= j]

\* df.rename(columns=d), d a dict given as a sequence of pairs.
rename(df, d) ==
  LET new(c) == IF HasKey(d, c) THEN Lookup(d, c) ELSE c
      ren == [i \in 1..Len(df.columns) |-> new(df.columns[i])]
  IN  DataFrame(ren,
                [r \in 1..Len(df.rows) |->
                   [c \in Range(ren) |-> df.rows[r][Origin(df.columns, ren, c)]]])

\* df[col] = val for a scalar val: overwrite in place, or append the column.
SetColumn(df, col, cell) ==
  DataFrame(IF col \in Range(df.columns) THEN df.columns
            ELSE Append(df.columns, col),
            [r \in 1..Len(df.rows) |->
               [c \in Range(df.columns) \cup {col} |->
                  IF c = col THEN cell ELSE df.rows[r][c]]])

\* df.dropna(subset=[col])
dropna(df, col) ==
  DataFrame(df.columns, SelectSeq(df.rows, LAMBDA row : ~IsNull(row[col])))

\* pd.to_datetime(cell, errors='ignore'): an unparseable cell is left as it is.
to_datetime_ignore(c) ==
  IF c.kind = "str" /\ c.val \in DateTexts THEN Timestamp(c.val) ELSE c

\* pd.to_datetime(cell, errors='coerce')
to_datetime(c) ==
  IF c.kind = "ts" THEN c
  ELSE IF c.kind = "str" /\ c.val \in DateTexts THEN Timestamp(c.val)
  ELSE NaT

\* cell.fillna('')
fillna(c) == IF IsNull(c) THEN Str("") ELSE c

\* df[col] = pd.to_datetime(df[col], errors='coerce')
to_datetime_column(df, col) ==
  DataFrame(df.columns,
            [r \in 1..Len(df.rows) |->
               [c \in Range(df.columns) |->
                  IF c = col THEN to_datetime(df.rows[r][c]) ELSE df.rows[r][c]]])

\* df[col] = df[col].fillna('')
fillna_column(df, col) ==
  DataFrame(df.columns,
            [r \in 1..Len(df.rows) |->
               [c \in Range(df.columns) |->
                  IF c = col THEN fillna(df.rows[r][c]) ELSE df.rows[r][c]]])

\* ------------------------------------------------------- load_source_data
\* {col.lower().strip(): col for col in actual_file_columns}, as the
\* assignments the comprehension makes, in order.
actual_col_map(cols) == [i \in 1..Len(cols) |-> <<Norm(cols[i]), cols[i]>>]

\* k in d, for a dict given by its assignments.
Assigned(d, k) == \E i \in 1..Len(d) : d[i][1] = k

\* d[k]: the last assignment to a key is the one that stands.
LastAssigned(d, k) ==
  d[CHOOSE i \in 1..Len(d) :
      /\ d[i][1] = k
      /\ \A j \in (i + 1)..Len(d) : d[j][1] # k][2]

\* The loop stopped at the first required column that is missing.
resolve_first_missing(m) ==
  [usecols_actual |->
     LET found == SelectSeq(Required, LAMBDA k : Assigned(m, Norm(k)))
     IN  [i \in 1..Len(found) |-> LastAssigned(m, Norm(found[i]))],
   normalization_map |->
     LET found == SelectSeq(Required, LAMBDA k : Assigned(m, Norm(k)))
     IN  [i \in 1..Len(found) |-> <<LastAssigned(m, Norm(found[i])), found[i]>>],
   missing_cols |->
     LET miss == SelectSeq(Required, LAMBDA k : ~Assigned(m, Norm(k)))
     IN  IF miss = <<>> THEN <<>> ELSE <<miss[1]>>]

\* The loop over COLUMN_MAPPING.keys(), lines 71-82, over actual_col_map m:
\* usecols_actual holds the actual spelling of each required column the
\* header resolves, normalization_map sends it to the canonical name,
\* missing_cols holds every required column the header does not resolve.
resolve_columns(m) ==
  [usecols_actual |->
     LET found == SelectSeq(Required, LAMBDA k : Assigned(m, Norm(k)))
     IN  [i \in 1..Len(found) |-> LastAssigned(m, Norm(found[i]))],
   normalization_map |->
     LET found == SelectSeq(Required, LAMBDA k : Assigned(m, Norm(k)))
     IN  [i \in 1..Len(found) |-> <<LastAssigned(m, Norm(found[i])), found[i]>>],
   missing_cols |-> SelectSeq(Required, LAMBDA k : ~Assigned(m, Norm(k)))]

\* The encodings of the two attempts of each read.
FirstEncoding == "utf-8"

HeaderFallback == "latin1"

\* The second attempt made with the first encoding again.
DataFallbackSame == "utf-8"

DataFallback == "latin1"

\* Whether pd.read_csv(nrows=0, encoding=enc) raises UnicodeDecodeError:
\* Latin-1 decodes every byte.
HeaderReadFails(f, enc) == IF enc = "utf-8" THEN HeaderUtf8Fails(f) ELSE {FALSE}

DataReadFails(f, enc) == IF enc = "utf-8" THEN DataUtf8Fails(f) ELSE FALSE

\* df = pd.read_csv(usecols=usecols_actual); df.rename(columns=normalization_map)
loaded_frame(f, usecols, nmap) == rename(read_csv(f, usecols), nmap)

\* --------------------------------------------------- apply_transformations
RECURSIVE set_constants(_, _, _)
set_constants(df, consts, i) ==
  IF i > Len(consts) THEN df
  ELSE set_constants(SetColumn(df, consts[i][1], Str(consts[i][2])), consts, i + 1)

\* Constants set only where the mapping left no column of that name.
transform_keep_mapped(df, mapping, consts) ==
  set_constants(rename(df, mapping),
                SelectSeq(consts, LAMBDA p : p[1] \notin Range(rename(df, mapping).columns)),
                1)

transform(df, mapping, consts) == set_constants(rename(df, mapping), consts, 1)

apply_transformations(df) == transform(df, COLUMN_MAPPING, CONSTANTS_)

\* ------------------------------------------------------ validate_and_clean
date_cols == <<OpenDate, ClosedDate>>

RECURSIVE standardize_dates(_, _)
standardize_dates(df, i) ==
  IF i > Len(date_cols) THEN df
  ELSE standardize_dates(
         IF date_cols[i] \in Range(df.columns)
         THEN to_datetime_column(df, date_cols[i]) ELSE df,
         i + 1)

\* df['Closed Date'] raises KeyError when the column is absent.
clean_raises(df) == TicketID \notin Range(df.columns) \/ ClosedDate \notin Range(df.columns)

\* dropna() without subset=: a row with any null cell is dropped.
validate_and_clean_any(df) ==
  fillna_column(
    standardize_dates(
      DataFrame(df.columns,
                SelectSeq(df.rows, LAMBDA row : \A c \in Range(df.columns) : ~IsNull(row[c]))),
      1),
    ClosedDate)

validate_and_clean(df) ==
  fillna_column(standardize_dates(dropna(df, TicketID), 1), ClosedDate)

\* -------------------------------------------------------- save_target_file
\* df[FINAL_COLUMN_ORDER] raises KeyError when a column is absent.
projection_raises(df) == \E i \in 1..Len(FINAL_COLUMN_ORDER) :
                            FINAL_COLUMN_ORDER[i] \notin Range(df.columns)

\* The frame written as it is, without the selection df[FINAL_COLUMN_ORDER].
project_none(df) == df

project(df) ==
  DataFrame(FINAL_COLUMN_ORDER,
            [r \in 1..Len(df.rows) |->
               [c \in Range(FINAL_COLUMN_ORDER) |-> df.rows[r][c]]])

\* A null cell is written as an empty spreadsheet cell.
ExcelCell(c) == IF IsNull(c) THEN Blank ELSE c

\* The artifact at output_path: header row, data rows, no index column.
\* complete is FALSE for a workbook whose write was interrupted.
Artifact(df, n, complete) ==
  [exists |-> TRUE, complete |-> complete, header |-> df.columns,
   rows |-> [r \in 1..n |-> [i \in 1..Len(df.columns) |-> ExcelCell(df.rows[r][df.columns[i]])]]]

NoArtifact == [exists |-> FALSE, complete |-> FALSE, header |-> <<>>, rows |-> <<>>]

\* What df_final.to_excel(output_path, index=False) can do: write the whole
\* workbook; raise before the file is opened (no such directory, no
\* permission); raise after the file was opened and n rows were written
\* (disk full, a cell the writer rejects).  Nothing removes the file then.
WriteOutcomes == {"ok", "denied", "midway"}

to_excel(df, old, outcome, n) ==
  CASE outcome = "ok" -> Artifact(df, Len(df.rows), TRUE)
    [] outcome = "denied" -> old
    [] outcome = "midway" -> Artifact(df, n, FALSE)

\* --------------------------------------------- run_transformation_pipeline
\* except ValueError: only the schema error is caught.
CatchesValueError(kind) == kind = "ValueError"

\* except Exception: every error kind of the stages is an Exception.
Catches(kind) == TRUE

\* return True
ReturnTrue(success) == "True"

\* return success
ReturnValue(success) == success

NoError == [kind |-> "none", missing |-> <<>>]

Err(kind) == [kind |-> kind, missing |-> <<>>]

VARIABLES
  file,               \* the input file at input_path
  out_file,           \* the artifact at output_path
  pc,                 \* position in run_transformation_pipeline
  stages,             \* the stage functions called so far, in order
  decodes,            \* the read_csv calls made: <<read, encoding>>
  header_df,          \* actual_file_columns
  usecols_actual,
  normalization_map,
  missing_cols,
  df_loaded,          \* what load_source_data returned
  df_transformed,     \* what apply_transformations returned
  df_clean,           \* what validate_and_clean returned
  success,            \* what save_target_file returned
  error,              \* the exception raised, and the columns its message lists
  escaped,            \* an exception left run_transformation_pipeline
  result              \* what run_transformation_pipeline returned

vars ==
  <<file, out_file, pc, stages, decodes, header_df, usecols_actual,
    normalization_map, missing_cols, df_loaded, df_transformed, df_clean,
    success, error, escaped, result>>

loader_vars == <<header_df, usecols_actual, normalization_map, missing_cols>>

frame_vars == <<df_loaded, df_transformed, df_clean>>

Init ==
  /\ file \in Files
  /\ out_file = NoArtifact
  /\ pc = "start"
  /\ stages = <<>>
  /\ decodes = <<>>
  /\ header_df = <<>>
  /\ usecols_actual = <<>>
  /\ normalization_map = <<>>
  /\ missing_cols = <<>>
  /\ df_loaded = EmptyFrame
  /\ df_transformed = EmptyFrame
  /\ df_clean = EmptyFrame
  /\ success = "none"
  /\ error = NoError
  /\ escaped = FALSE
  /\ result = "none"

\* raise: control leaves the stage for the handler of the pipeline.
Raise(e) ==
  /\ error' = e
  /\ pc' = "except"

\* load_source_data, lines 55-59
CheckExists ==
  /\ pc = "start"
  /\ stages' = Append(stages, "load")
  /\ IF file.exists
     THEN pc' = "header_utf8" /\ UNCHANGED error
     ELSE Raise(Err("FileNotFoundError"))
  /\ UNCHANGED <<file, out_file, decodes, loader_vars, frame_vars, success,
                 escaped, result>>

\* load_source_data, lines 63-65
ReadHeaderUtf8 ==
  /\ pc = "header_utf8"
  /\ decodes' = Append(decodes, <<"header", FirstEncoding>>)
  /\ \E fails \in HeaderReadFails(file, FirstEncoding) :
       IF fails
       THEN pc' = "header_fallback" /\ UNCHANGED header_df
       ELSE pc' = "resolve" /\ header_df' = file.header
  /\ UNCHANGED <<file, out_file, stages, usecols_actual, normalization_map,
                 missing_cols, frame_vars, success, error, escaped, result>>

\* load_source_data, line 66
ReadHeaderFallback ==
  /\ pc = "header_fallback"
  /\ decodes' = Append(decodes, <<"header", HeaderFallback>>)
  /\ \E fails \in HeaderReadFails(file, HeaderFallback) :
       IF fails
       THEN Raise(Err("UnicodeDecodeError")) /\ UNCHANGED header_df
       ELSE pc' = "resolve" /\ header_df' = file.header /\ UNCHANGED error
  /\ UNCHANGED <<file, out_file, stages, usecols_actual, normalization_map,
                 missing_cols, frame_vars, success, escaped, result>>

\* load_source_data, lines 68-87
ResolveColumns ==
  /\ pc = "resolve"
  /\ LET r == resolve_columns(actual_col_map(header_df)) IN
       /\ usecols_actual' = r.usecols_actual
       /\ normalization_map' = r.normalization_map
       /\ missing_cols' = r.missing_cols
       /\ IF r.missing_cols # <<>>
          THEN Raise([kind |-> "ValueError", missing |-> r.missing_cols])
          ELSE pc' = "data_utf8" /\ UNCHANGED error
  /\ UNCHANGED <<file, out_file, stages, decodes, header_df, frame_vars,
                 success, escaped, result>>

\* load_source_data, lines 90-92 and 97-100
ReadDataUtf8 ==
  /\ pc = "data_utf8"
  /\ decodes' = Append(decodes, <<"data", FirstEncoding>>)
  /\ IF DataReadFails(file, FirstEncoding)
     THEN pc' = "data_fallback" /\ UNCHANGED df_loaded
     ELSE /\ pc' = "map"
          /\ df_loaded' = loaded_frame(file, usecols_actual, normalization_map)
  /\ UNCHANGED <<file, out_file, stages, loader_vars, df_transformed, df_clean,
                 success, error, escaped, result>>

\* load_source_data, lines 93-94 and 97-100
ReadDataFallback ==
  /\ pc = "data_fallback"
  /\ decodes' = Append(decodes, <<"data", DataFallback>>)
  /\ IF DataReadFails(file, DataFallback)
     THEN Raise(Err("UnicodeDecodeError")) /\ UNCHANGED df_loaded
     ELSE /\ pc' = "map"
          /\ df_loaded' = loaded_frame(file, usecols_actual, normalization_map)
          /\ UNCHANGED error
  /\ UNCHANGED <<file, out_file, stages, loader_vars, df_transformed, df_clean,
                 success, escaped, result>>

\* run_transformation_pipeline, line 152
Map ==
  /\ pc = "map"
  /\ stages' = Append(stages, "map")
  /\ df_transformed' = apply_transformations(df_loaded)
  /\ pc' = "clean"
  /\ UNCHANGED <<file, out_file, decodes, loader_vars, df_loaded, df_clean,
                 success, error, escaped, result>>

\* run_transformation_pipeline, line 153
Clean ==
  /\ pc = "clean"
  /\ stages' = Append(stages, "clean")
  /\ IF clean_raises(df_transformed)
     THEN Raise(Err("KeyError")) /\ UNCHANGED df_clean
     ELSE /\ df_clean' = validate_and_clean(df_transformed)
          /\ pc' = "write"
          /\ UNCHANGED error
  /\ UNCHANGED <<file, out_file, decodes, loader_vars, df_loaded,
                 df_transformed, success, escaped, result>>

\* run_transformation_pipeline, line 154: save_target_file catches its own
\* exceptions and returns a boolean.
Save ==
  /\ pc = "write"
  /\ stages' = Append(stages, "write")
  /\ IF projection_raises(df_clean)
     THEN /\ success' = "False"
          /\ error' = Err("KeyError")
          /\ UNCHANGED out_file
     ELSE \E outcome \in WriteOutcomes, n \in 0..Len(df_clean.rows) :
            /\ outcome = "midway" \/ n = Len(df_clean.rows)
            /\ out_file' = to_excel(project(df_clean), out_file, outcome, n)
            /\ success' = IF outcome = "ok" THEN "True" ELSE "False"
            /\ error' = IF outcome = "ok" THEN error ELSE Err("WriteError")
  /\ pc' = "return"
  /\ UNCHANGED <<file, decodes, loader_vars, frame_vars, escaped, result>>

\* run_transformation_pipeline, line 155
Return ==
  /\ pc = "return"
  /\ result' = ReturnValue(success)
  /\ pc' = "done"
  /\ UNCHANGED <<file, out_file, stages, decodes, loader_vars, frame_vars,
                 success, error, escaped>>

\* run_transformation_pipeline, lines 156-158
Except ==
  /\ pc = "except"
  /\ IF Catches(error.kind)
     THEN result' = "False" /\ UNCHANGED escaped
     ELSE escaped' = TRUE /\ UNCHANGED result
  /\ pc' = "done"
  /\ UNCHANGED <<file, out_file, stages, decodes, loader_vars, frame_vars,
                 success, error>>

Next ==
  \/ CheckExists
  \/ ReadHeaderUtf8
  \/ ReadHeaderFallback
  \/ ResolveColumns
  \/ ReadDataUtf8
  \/ ReadDataFallback
  \/ Map
  \/ Clean
  \/ Save
  \/ Return
  \/ Except

Spec == Init /\ [][Next]_vars

\* ================================================================== claims
AllStages == <<"load", "map", "clean", "write">>

\* The loader has returned a frame.
Loaded == "map" \in Range(stages) \/ pc = "map"

Mapped == "clean" \in Range(stages) \/ pc = "clean"

Cleaned == "write" \in Range(stages) \/ pc = "write"

\* Two names equal up to letter case and surrounding whitespace.
SameName(a, b) == Strip(Lower(a)) = Strip(Lower(b))

\* The header's names, each reduced to lower case without surrounding blanks.
Folded(f) == {Strip(Lower(f.header[i])) : i \in 1..Len(f.header)}

Unresolvable(f) ==
  LET names == Folded(f) IN {k \in Range(Required) : Strip(Lower(k)) \notin names}

HasAllRequired(f) == Unresolvable(f) = {}

NoDuplicates(q) == \A i, j \in 1..Len(q) : q[i] = q[j] => i = j

\* The indices of the rows of df whose Ticket ID is present, in order.
KeptRows(df) ==
  SelectSeq([i \in 1..Len(df.rows) |-> i], LAMBDA i : ~IsNull(df.rows[i][TicketID]))

DroppedRows(df) == {i \in 1..Len(df.rows) : IsNull(df.rows[i][TicketID])}

Parseable(c) == c.kind = "ts" \/ (c.kind = "str" /\ c.val \in DateTexts)

\* The positions of a run, in the order control can pass through them.
Positions ==
  <<"start", "header_utf8", "header_fallback", "resolve", "data_utf8",
    "data_fallback", "map", "clean", "write", "return", "except", "done">>

Rank(p) == CHOOSE i \in 1..Len(Positions) : Positions[i] = p

\* A run that has not returned has a step to take.
CanStep ==
  /\ pc \in Range(Positions)
  /\ pc = "header_utf8" => HeaderReadFails(file, FirstEncoding) # {}
  /\ pc = "header_fallback" => HeaderReadFails(file, HeaderFallback) # {}
  /\ pc = "write" => WriteOutcomes # {}

C1_Returned ==
  /\ ~escaped
  /\ pc # "done" => CanStep /\ result = "none"
  /\ pc = "done" =>
       /\ result \in {"True", "False"}
       /\ result = "True" =>
            /\ stages = AllStages
            /\ success = "True"
            /\ out_file.exists /\ out_file.complete

\* C1: run_transformation_pipeline never lets an exception escape; until it
\* has returned it always has a step to take and every step moves it forward
\* (it terminates); once it has returned, the result is a boolean, and it is
\* True only when load, map, clean and write all ran and the write produced
\* the complete artifact.
C1_NeverRaises ==
  /\ []C1_Returned
  /\ [][Rank(pc') > Rank(pc)]_vars

\* C1 witness: a run over a missing input file, ended with False.
C1_Witness ==
  /\ pc = "done"
  /\ ~file.exists
  /\ error.kind = "FileNotFoundError"
  /\ result = "False"

\* C2: for an existing file whose header holds every required column under
\* some case/whitespace variant, the loader does not raise and returns a
\* frame whose columns are exactly the five canonical source names, each once.
C2_CanonicalColumns ==
  (file.exists /\ HasAllRequired(file)) =>
    /\ pc # "except"
    /\ pc = "done" => Loaded
    /\ Loaded =>
         /\ Range(df_loaded.columns) = Range(Required)
         /\ NoDuplicates(df_loaded.columns)
         /\ Len(df_loaded.rows) = Len(file.rows)

\* C2 witness: a loaded file whose header spells a required column twice
\* (equal after lower().strip()) and holds an extra column.
C2_Witness ==
  /\ Loaded
  /\ \E i, j \in 1..Len(file.header) :
       i # j /\ SameName(file.header[i], file.header[j])
  /\ ExtraName \in Range(file.header)
  /\ Len(df_loaded.rows) > 0

\* C3: for an existing file whose header lacks a required column, the loader
\* raises the schema error listing exactly the unresolvable required columns,
\* each once; the data rows are never read and no later stage runs.
C3_AllMissingListed ==
  (file.exists /\ ~HasAllRequired(file)) =>
    /\ pc \notin {"data_utf8", "data_fallback", "map", "clean", "write", "return"}
    /\ \A i \in 1..Len(decodes) : decodes[i][1] # "data"
    /\ df_loaded = EmptyFrame
    /\ pc \in {"except", "done"} =>
         /\ error.kind = "ValueError"
         /\ Range(error.missing) = Unresolvable(file)
         /\ NoDuplicates(error.missing)
         /\ stages = <<"load">>
    /\ pc = "done" => result = "False" /\ out_file = NoArtifact

\* C3 witness: a run ended by the schema error with two columns missing, over
\* a file that has data rows.
C3_Witness ==
  /\ pc = "done"
  /\ error.kind = "ValueError"
  /\ Len(error.missing) >= 2
  /\ Len(file.rows) > 0

\* C4: the cleaned frame holds exactly the rows of the mapped frame whose
\* Ticket ID is not null, in their original order; the row count falls by
\* the number of rows whose Ticket ID is null.
C4_DropsOnlyKeyless ==
  Cleaned =>
    LET kept == KeptRows(df_transformed) IN
    /\ Len(df_clean.rows) = Len(kept)
    /\ Len(df_transformed.rows) - Len(df_clean.rows)
         = Cardinality(DroppedRows(df_transformed))
    /\ \A j \in 1..Len(df_clean.rows) :
         /\ ~IsNull(df_clean.rows[j][TicketID])
         /\ \A c \in Range(df_transformed.columns) \ Range(date_cols) :
              df_clean.rows[j][c] = df_transformed.rows[kept[j]][c]

\* C4 witness: a cleaned frame that lost a keyless row and kept a row with a
\* key and a null closing date.
C4_Witness ==
  /\ Cleaned
  /\ Len(df_clean.rows) = 1
  /\ Len(df_transformed.rows) = 2
  /\ \E i \in 1..2 : /\ ~IsNull(df_transformed.rows[i][TicketID])
                     /\ IsNull(df_transformed.rows[i][ClosedDate])

\* C5: when the pipeline returns True, the artifact's header row is exactly
\* FINAL_COLUMN_ORDER and every data row has those 8 cells and no index cell.
C5_FinalColumnOrder ==
  result = "True" =>
    /\ out_file.exists
    /\ out_file.header = FINAL_COLUMN_ORDER
    /\ Len(out_file.header) = 8
    /\ \A r \in 1..Len(out_file.rows) : Len(out_file.rows[r]) = 8

\* C5 witness: success over a file with an extra column whose required
\* columns stand in another order than COLUMN_MAPPING's.
C5_Witness ==
  /\ result = "True"
  /\ ExtraName \in Range(file.header)
  /\ df_loaded.columns # Required
  /\ Len(out_file.rows) > 0

\* C6: output is all-or-nothing: a finished run either returned True and
\* left the complete artifact (all surviving rows, 8 columns), or returned
\* False and left nothing at output_path.
C6_AllOrNothing ==
  pc = "done" =>
    \/ /\ result = "True"
       /\ out_file.exists /\ out_file.complete
       /\ Len(out_file.rows) = Len(df_clean.rows)
       /\ out_file.header = FINAL_COLUMN_ORDER
    \/ /\ result = "False"
       /\ out_file = NoArtifact

\* C7: validate_and_clean does not raise on a mapped frame; a kept row's
\* unparseable Open Date or Closed Date becomes null or empty and the row
\* stays; no Closed Date cell of the cleaned frame is null.
C7_DatesCoerced ==
  /\ (Mapped /\ pc \in {"except", "done"}) => Cleaned
  /\ Cleaned =>
       LET kept == KeptRows(df_transformed) IN
       /\ Len(df_clean.rows) = Len(kept)
       /\ \A j \in 1..Len(df_clean.rows) :
            /\ \A i \in 1..Len(date_cols) :
                 ~Parseable(df_transformed.rows[kept[j]][date_cols[i]]) =>
                   \/ IsNull(df_clean.rows[j][date_cols[i]])
                   \/ df_clean.rows[j][date_cols[i]] = Str("")
            /\ ~IsNull(df_clean.rows[j][ClosedDate])

\* C7 witness: a cleaned frame keeping a row whose two dates were
\* unparseable text.
C7_Witness ==
  /\ Cleaned
  /\ \E j \in 1..Len(df_clean.rows) :
       LET old == df_transformed.rows[KeptRows(df_transformed)[j]] IN
       /\ old[OpenDate] = Str("junk")
       /\ old[ClosedDate] = Str("not a date")
       /\ df_clean.rows[j][OpenDate] = NaT
       /\ df_clean.rows[j][ClosedDate] = Str("")

\* Each read tries UTF-8 first and Latin-1 once, only after UTF-8 failed,
\* and nothing after that.
DecodeDiscipline ==
  LET of(read) == SelectSeq(decodes, LAMBDA d : d[1] = read) IN
  /\ \A read \in {"header", "data"} :
       /\ Len(of(read)) <= 2
       /\ Len(of(read)) >= 1 => of(read)[1][2] = "utf-8"
       /\ Len(of(read)) = 2 => of(read)[2][2] = "latin1" /\ DataUtf8Fails(file)
  /\ Len(of("data")) = 2 => DataReadFails(file, "utf-8")
  /\ pc \in {"map", "clean", "write", "return"} \/ (pc = "done" /\ Loaded) =>
       Len(of("data")) = IF DataUtf8Fails(file) THEN 2 ELSE 1

UndecodableWithColumns ==
  file.exists /\ DataUtf8Fails(file) /\ HasAllRequired(file)

\* C8 as stated: the decoding discipline, and a file that fails UTF-8
\* decoding and has every required column makes the pipeline return True.
C8_Original ==
  /\ DecodeDiscipline
  /\ (pc = "done" /\ UndecodableWithColumns) => result = "True"

\* C8 as amended: the decoding discipline, and for such a file all four
\* stages run and the pipeline returns True unless the write of the output
\* fails.
C8_LatinFallback ==
  /\ DecodeDiscipline
  /\ (pc = "done" /\ UndecodableWithColumns) =>
       /\ stages = AllStages
       /\ result = "True" \/ (result = "False" /\ error.kind = "WriteError")

\* C8 witness: a Latin-1 file converted with both reads falling back.
C8_Witness ==
  /\ pc = "done"
  /\ UndecodableWithColumns
  /\ result = "True"
  /\ decodes = << <<"header", "utf-8">>, <<"header", "latin1">>,
                  <<"data", "utf-8">>, <<"data", "latin1">> >>

\* A constants dict with a key that is also a mapped target column.
CollidingConstants == << <<Status, "FIXED">> >> \o CONSTANTS_

\* C9: the mapped frame has the loaded frame's rows in the same number and
\* order, its columns are the COLUMN_MAPPING targets plus the CONSTANTS keys,
\* every row holds the three constants and the loaded values under the target
\* names; with a constant named like a mapped target, the constant's value
\* stands in every row.
C9_MapperConstants ==
  Mapped =>
    /\ Len(df_transformed.rows) = Len(df_loaded.rows)
    /\ Range(df_transformed.columns)
         = Range(Values(COLUMN_MAPPING)) \cup Range(Keys(CONSTANTS_))
    /\ NoDuplicates(df_transformed.columns)
    /\ \A r \in 1..Len(df_transformed.rows) :
         /\ df_transformed.rows[r][Priority] = Str("NONE")
         /\ df_transformed.rows[r][Application] = Str("HMOF")
         /\ df_transformed.rows[r][AssignmentGroup] = Str("HMH Support Group")
         /\ \A i \in 1..Len(COLUMN_MAPPING) :
              df_transformed.rows[r][COLUMN_MAPPING[i][2]]
                = df_loaded.rows[r][COLUMN_MAPPING[i][1]]
    /\ LET t == transform(df_loaded, COLUMN_MAPPING, CollidingConstants) IN
       /\ NoDuplicates(t.columns)
       /\ Len(t.rows) = Len(df_loaded.rows)
       /\ \A r \in 1..Len(t.rows) : t.rows[r][Status] = Str("FIXED")

\* C9 witness: a mapped frame of two rows with different statuses.
C9_Witness ==
  /\ Mapped
  /\ Len(df_transformed.rows) = 2
  /\ df_transformed.rows[1][Status] # df_transformed.rows[2][Status]

\* C10: the stages run in the order load, map, clean, write; a run in which
\* one of the first three raised never calls the writer, leaves output_path
\* untouched and returns False; a run that reached the writer returns the
\* writer's result.
C10_StageOrder ==
  /\ \E n \in 0..Len(AllStages) : stages = SubSeq(AllStages, 1, n)
  /\ "map" \in Range(stages) => file.exists /\ missing_cols = <<>>
  /\ pc = "except" => "write" \notin Range(stages)
  /\ "write" \notin Range(stages) => out_file = NoArtifact /\ success = "none"
  /\ (pc = "done" /\ "write" \notin Range(stages)) =>
       result = "False" /\ error.kind # "none"
  /\ (pc = "done" /\ "write" \in Range(stages)) =>
       /\ success \in {"True", "False"}
       /\ result = success

\* C10 witness: a run that reached the writer, whose write failed, and that
\* returned False.
C10_Witness ==
  /\ pc = "done"
  /\ stages = AllStages
  /\ success = "False"
  /\ result = "False"

====
